---- MODULE Spec2Model ----
(***************************************************************************)
(* The benchmark driver benchmark_scripts/anyscale.py as a state machine.  *)
(*                                                                         *)
(* Spec    : one call of run_queries_on_anyscale: the loop over the query  *)
(*           list, the awaited endpoint call of each query, and the calls  *)
(*           the rest of the iteration makes to sql_match, log and         *)
(*           write_to_file, with the files they append to.                 *)
(* SpecFan : main's fan-out for one model: one multi_process task per      *)
(*           entry of the instruction-size list, each constructing its     *)
(*           client and walking the dataset buckets (initialize_files, the *)
(*           runner, generate_gold_file) under its per-run path.           *)
(***************************************************************************)
EXTENDS Integers, Sequences, FiniteSets, TLC

\* ------------------------------------------------------------------ bounds
MaxQueries == 2
MaxBuckets == 2
MaxFaults == 2
MaxListLen == 2

\* --------------------------------------------------------------- constants
ANY_SCALE_BASE_URL == "https://api.endpoints.anyscale.com/v1"
ANY_SCALE_API_KEY == "ANY_SCALE_API_KEY"
OPENAI_KEY == "OPENAI_KEY"
HOST_ENV == "anyscale"

MODEL_META_LLAMA == "meta-llama/Llama-2-70b-chat-hf"
MODEL_META_CODELLAMA_70B == "codellama/CodeLlama-70b-Instruct-hf"
MODEL_META_CODELLAMA_34B == "codellama/CodeLlama-34b-Instruct-hf"
MODEL_MISTRALAI_MISTRAL_7B == "mistralai/Mistral-7B-Instruct-v0.1"
MODEL_MISTRALAI_MIXTRAL_8X7B == "mistralai/Mixtral-8x7B-Instruct-v0.1"
MODEL_GPT_3 == "gpt-3.5-turbo-16k"
MODEL_GPT_4 == "gpt-4-turbo-preview"

supported_models ==
    [a \in {"cl-70", "cl-34", "mistral", "mixtral", "llama", "gpt-4", "gpt-3"} |->
        CASE a = "cl-70" -> MODEL_META_CODELLAMA_70B
          [] a = "cl-34" -> MODEL_META_CODELLAMA_34B
          [] a = "mistral" -> MODEL_MISTRALAI_MISTRAL_7B
          [] a = "mixtral" -> MODEL_MISTRALAI_MIXTRAL_8X7B
          [] a = "llama" -> MODEL_META_LLAMA
          [] a = "gpt-4" -> MODEL_GPT_4
          [] a = "gpt-3" -> MODEL_GPT_3]

\* The model identifiers main can hand to multi_process.
Models == {supported_models[a] : a \in DOMAIN supported_models}

\* AsyncOpenAI(api_key=...) without base_url keeps the library's default.
DefaultBaseUrl == "default"

\* ------------------------------------------------------------------ inputs
Hardness == {"easy", "hard"}

\* A query of the dataset: (context, question, hardness).
Queries == [context : {"ctx"}, question : {"q"}, hardness : Hardness]

QueryLists == UNION {[1..n -> Queries] : n \in 0..MaxQueries}

\* What the endpoint can answer: the completion text (a word sequence) and
\* the usage counts, any of which may be absent from a malformed response.
RespSorry ==
    [content |-> <<"sorry">>, completion_tokens |-> 2, prompt_tokens |-> 5, missing |-> {}]

RespSql ==
    [content |-> <<"Here", "SELECT", "1", ";">>, completion_tokens |-> 3, prompt_tokens |-> 6,
     missing |-> {}]

RespSqlFast ==
    [content |-> <<"select", "2", ";", "done">>, completion_tokens |-> 2, prompt_tokens |-> 7,
     missing |-> {}]

RespSelected ==
    [content |-> <<"Selected", "nothing">>, completion_tokens |-> 4, prompt_tokens |-> 7,
     missing |-> {}]

RespNoContent ==
    [content |-> <<>>, completion_tokens |-> 3, prompt_tokens |-> 6, missing |-> {"content"}]

RespNoCompletionTokens ==
    [content |-> <<"sorry">>, completion_tokens |-> 0, prompt_tokens |-> 6,
     missing |-> {"completion_tokens"}]

RespNoPromptTokens ==
    [content |-> <<"Here", "SELECT", "1", ";">>, completion_tokens |-> 3, prompt_tokens |-> 0,
     missing |-> {"prompt_tokens"}]

Responses ==
    {RespSorry, RespSql, RespSqlFast, RespSelected, RespNoContent, RespNoCompletionTokens,
     RespNoPromptTokens}

NoResponse == [content |-> <<>>, completion_tokens |-> 0, prompt_tokens |-> 0, missing |-> {}]

\* The call returned r; elapsed is response_time_stop - response_time_start
\* in seconds.
Returned(r, elapsed) == [kind |-> "response", ex |-> "", resp |-> r, elapsed |-> elapsed]

\* How the awaited endpoint call ends: it raises, or it returns a response
\* after some time (0 when both clock readings agree).
CallOutcomes ==
    {[kind |-> "raise", ex |-> "Connection error.", resp |-> NoResponse, elapsed |-> 0]}
    \cup {Returned(r, 3) : r \in Responses \ {RespSqlFast}}
    \cup {Returned(RespSqlFast, 0)}

\* How a call to log ends: the record is appended, or log raises.
LogResults == {"ok", "raise"}

\* How a call to write_to_file ends: both rows are appended, it raises before
\* writing, or it raises after the output row and before the metrics row.
WriteResults == {"ok", "raise", "partial"}

\* The outcomes of the (at most four) file calls of one query: those of the
\* try block and those of the except block.
FaultChoices == [tlog : LogResults, twrite : WriteResults, hlog : LogResults, hwrite : WriteResults]

\* ------------------------------------------------------- formatting, text
\* f"{n}" of an int.
FormatInt(n) == <<n>>

\* f"{td}" of a timedelta of s seconds: H:MM:SS.
FormatTimedelta(s) == <<s \div 3600, (s % 3600) \div 60, s % 60>>

\* Whether "select" is a substring of the lowered word.
WordHasSelect(w) == w \in {"SELECT", "select", "Select", "Selected", "selected"}

\* "select" in llm_response_content.lower()
HasSelect(content) == \E k \in 1..Len(content) : WordHasSelect(content[k])

\* sql_match: the statement from the first SELECT keyword to the first ";"
\* after it, when there is one.
sql_match(content) ==
    LET starts == {k \in 1..Len(content) : content[k] \in {"SELECT", "select", "Select"}}
        s == IF starts = {} THEN 0 ELSE CHOOSE k \in starts : \A j \in starts : k <= j
        ends == {k \in 1..Len(content) : s > 0 /\ k > s /\ content[k] = ";"}
        e == IF ends = {} THEN 0 ELSE CHOOSE k \in ends : \A j \in ends : k <= j
    IN  IF e > 0 THEN [found |-> TRUE, sql |-> SubSeq(content, s, e)]
        ELSE [found |-> FALSE, sql |-> <<>>]

\* The rows of the output file: text followed by a blank line.
Block(text) == Append(text, "\n\n")

SqlRow(sql_response) == Block(sql_response)

IDontKnowRow == Block(<<"I don't know">>)

ErrorRow(ex) == Block(<<"An error occurred: ", ex>>)

\* The lines of the metrics file: time,prompt_tokens,completion_tokens,hardness.
SqlMetrics(response_time, loc, hardness) ==
    <<FormatTimedelta(response_time), FormatInt(loc.llm_prompt_tokens),
      FormatInt(loc.llm_response_tokens), hardness>>

\* A slip: the two token counts in the other order.
NoSqlMetricsSwapped(loc, hardness) ==
    <<FormatInt(0), FormatInt(loc.llm_response_tokens), FormatInt(loc.llm_prompt_tokens), hardness>>

NoSqlMetrics(loc, hardness) ==
    <<FormatInt(0), FormatInt(loc.llm_prompt_tokens), FormatInt(loc.llm_response_tokens), hardness>>

\* A slip: the error line keeps whatever token counts were read.
ErrorMetricsKeepsTokens(loc, hardness) ==
    <<FormatInt(0), FormatInt(loc.llm_prompt_tokens), FormatInt(loc.llm_response_tokens), hardness>>

ErrorMetrics(loc, hardness) ==
    <<FormatInt(0), FormatInt(0), FormatInt(0), hardness>>


\* ------------------------------------------------------------------- state
VARIABLES
    query_list,          \* run_queries_on_anyscale: total_user_query
    rq_pc,               \* run_queries_on_anyscale: "for", "await", "returned", "raised"
    idx,                 \* how many queries the loop has taken
    locals,              \* the runner's local variables
    calls,               \* the calls the runner has made, in order
    output_file,         \* the blocks of the output file
    metrics_file,        \* the lines of the metrics file
    log_file,            \* the records of the log file
    faults,              \* how many log / write_to_file calls have raised
    model_name,            \* main: the model identifier it fans out
    instruction_size_list, \* main: the instruction sizes, one task each
    dataset_length_list,   \* main: the dataset lengths of datasets_info, one bucket each
    task,                  \* per task: multi_process's position, locals and calls
    written                \* the files written so far, each with its writers

runVars == <<query_list, rq_pc, idx, locals, calls, output_file, metrics_file, log_file, faults>>

fanVars == <<model_name, instruction_size_list, dataset_length_list, task, written>>

vars == <<runVars, fanVars>>

\* data_to_log as the try block first builds it (lines 68-85).
NewDataToLog ==
    [severity |-> "info", is_sql |-> 0, keys |-> {"request"}, sql_response |-> <<>>]

\* The runner's locals before the first query: nothing read yet.
NoLocals ==
    [data_to_log |-> NewDataToLog, llm_response_content |-> <<>>,
     llm_response_tokens |-> 0, llm_prompt_tokens |-> 0,
     response_time |-> 0, is_sql_match |-> FALSE, sql_response |-> <<>>]

\* ------------------------------------------------- the per-query body
LogCall(line, i, msg, data, res) ==
    [fn |-> "log", q |-> i, line |-> line, msg |-> msg, data |-> data, result |-> res]

WriteCall(line, i, output, metrics, res) ==
    [fn |-> "write_to_file", q |-> i, line |-> line, output |-> output,
     metrics |-> metrics, result |-> res]

\* What a block of the body leaves: the calls it made, the locals, and the
\* exception it raised ("" for none).
Left(cs, loc, ex) == [calls |-> cs, locals |-> loc, ex |-> ex]

\* Lines 104-113: no SQL was found.
NoSqlBranch(q, i, loc, f) ==
    LET d == [loc.data_to_log EXCEPT !.severity = "warn"]
        l == [loc EXCEPT !.data_to_log = d]
        lg == LogCall(106, i, "No SQL Output detected", d, f.tlog)
        wr == WriteCall(107, i, IDontKnowRow, NoSqlMetrics(l, q.hardness), f.twrite)
    IN  IF f.tlog # "ok" THEN Left(<<lg>>, l, "log failed")
        ELSE Left(<<lg, wr>>, l, IF f.twrite = "ok" THEN "" ELSE "write failed")

\* Lines 115-125: SQL was found.
SqlBranch(q, i, loc, f) ==
    LET d == [loc.data_to_log EXCEPT !.is_sql = 1,
                                     !.keys = @ \cup {"sql_response"},
                                     !.sql_response = loc.sql_response]
        l == [loc EXCEPT !.data_to_log = d]
        lg == LogCall(117, i, "SQL Response successful", d, f.tlog)
        wr == WriteCall(120, i, SqlRow(l.sql_response), SqlMetrics(l.response_time, l, q.hardness), f.twrite)
    IN  IF f.tlog # "ok" THEN Left(<<lg>>, l, "log failed")
        ELSE Left(<<lg, wr>>, l, IF f.twrite = "ok" THEN "" ELSE "write failed")

\* Lines 99-125: the response was read; look for SQL and record the outcome.
Classify(q, i, loc, f) ==
    LET has == HasSelect(loc.llm_response_content)
        m == sql_match(loc.llm_response_content)
        l == IF has THEN [loc EXCEPT !.is_sql_match = m.found, !.sql_response = m.sql]
             ELSE [loc EXCEPT !.is_sql_match = FALSE]
        sm == IF has THEN <<[fn |-> "sql_match", q |-> i, line |-> 100, result |-> "ok"]>>
              ELSE <<>>
        b == IF l.is_sql_match THEN SqlBranch(q, i, l, f) ELSE NoSqlBranch(q, i, l, f)
    IN  Left(sm \o b.calls, b.locals, b.ex)

\* Lines 93-97: the fields of the response, read in the code's order; the
\* first absent one raises.
ReadResponse(loc, r) ==
    LET d == [loc.data_to_log EXCEPT !.keys = @ \cup {"response"}]
        l1 == [loc EXCEPT !.data_to_log = d]
        l2 == [l1 EXCEPT !.llm_response_content = r.content]
        l3 == [l2 EXCEPT !.llm_response_tokens = r.completion_tokens]
        l4 == [l3 EXCEPT !.llm_prompt_tokens = r.prompt_tokens]
    IN  IF "content" \in r.missing THEN Left(<<>>, l1, "list index out of range")
        ELSE IF "completion_tokens" \in r.missing
            THEN Left(<<>>, l2, "no attribute completion_tokens")
        ELSE IF "prompt_tokens" \in r.missing
            THEN Left(<<>>, l3, "no attribute prompt_tokens")
        ELSE Left(<<>>, l4, "")

\* Lines 88-125: the try block from the point where the awaited call ends.
TryBlock(q, i, loc, co, f) ==
    IF co.kind = "raise" THEN Left(<<>>, loc, co.ex)
    ELSE LET rd == ReadResponse([loc EXCEPT !.response_time = co.elapsed], co.resp)
         IN  IF rd.ex # "" THEN rd ELSE Classify(q, i, rd.locals, f)

\* A slip: the except block raises the exception again after recording it.
ExceptBlockReraises(q, i, loc, ex, f) ==
    LET d == [loc.data_to_log EXCEPT !.severity = "error"]
        l == [loc EXCEPT !.data_to_log = d]
        lg == LogCall(128, i, ex, d, f.hlog)
        wr == WriteCall(130, i, ErrorRow(ex), ErrorMetrics(l, q.hardness), f.hwrite)
    IN  IF f.hlog # "ok" THEN Left(<<lg>>, l, "log failed")
        ELSE Left(<<lg, wr>>, l, IF f.hwrite = "ok" THEN ex ELSE "write failed")

\* Lines 126-135: the except block; what it raises itself leaves the runner.
ExceptBlock(q, i, loc, ex, f) ==
    LET d == [loc.data_to_log EXCEPT !.severity = "error"]
        l == [loc EXCEPT !.data_to_log = d]
        lg == LogCall(128, i, ex, d, f.hlog)
        wr == WriteCall(130, i, ErrorRow(ex), ErrorMetrics(l, q.hardness), f.hwrite)
    IN  IF f.hlog # "ok" THEN Left(<<lg>>, l, "log failed")
        ELSE Left(<<lg, wr>>, l, IF f.hwrite = "ok" THEN "" ELSE "write failed")

\* Lines 88-135: the rest of one iteration, from the end of the awaited call.
\* ex is the exception that leaves the iteration ("" when it completes).
Body(q, i, loc, co, f) ==
    LET t == TryBlock(q, i, loc, co, f)
        h == ExceptBlock(q, i, t.locals, t.ex, f)
    IN  IF t.ex = "" THEN t ELSE Left(t.calls \o h.calls, h.locals, h.ex)

\* ------------------------------------------------------------ the files
IsFileCall(c) == c.fn \in {"log", "write_to_file"}

\* The log record a returning log call appends.
LogRecord(c) == [msg |-> c.msg, severity |-> c.data.severity, is_sql |-> c.data.is_sql,
                 keys |-> c.data.keys, sql_response |-> c.data.sql_response]

RECURSIVE OutputAfter(_, _)
OutputAfter(file, cs) ==
    IF cs = <<>> THEN file
    ELSE LET c == Head(cs)
         IN  OutputAfter(IF c.fn = "write_to_file" /\ c.result \in {"ok", "partial"}
                         THEN Append(file, c.output) ELSE file, Tail(cs))

RECURSIVE MetricsAfter(_, _)
MetricsAfter(file, cs) ==
    IF cs = <<>> THEN file
    ELSE LET c == Head(cs)
         IN  MetricsAfter(IF c.fn = "write_to_file" /\ c.result = "ok"
                          THEN Append(file, c.metrics) ELSE file, Tail(cs))

RECURSIVE LogAfter(_, _)
LogAfter(file, cs) ==
    IF cs = <<>> THEN file
    ELSE LET c == Head(cs)
         IN  LogAfter(IF c.fn = "log" /\ c.result = "ok"
                      THEN Append(file, LogRecord(c)) ELSE file, Tail(cs))

\* How many of the calls raised.
Raised(cs) == Cardinality({k \in 1..Len(cs) : IsFileCall(cs[k]) /\ cs[k].result # "ok"})


\* ------------------------------------------- run_queries_on_anyscale
\* The fan-out's variables while one runner call is looked at.
FanIdle ==
    /\ model_name = MODEL_META_LLAMA
    /\ instruction_size_list = <<>>
    /\ dataset_length_list = <<>>
    /\ task = <<>>
    /\ written = {}

\* Lines 55-65: the runner is called with a query list and fresh files.
Init ==
    /\ query_list \in QueryLists
    /\ rq_pc = "for"
    /\ idx = 0
    /\ locals = NoLocals
    /\ calls = <<>>
    /\ output_file = <<>>
    /\ metrics_file = <<>>
    /\ log_file = <<>>
    /\ faults = 0
    /\ FanIdle

\* A slip: the call is not awaited, so the next one is issued while it is in
\* flight.
IssueCallWithoutAwait ==
    /\ rq_pc \in {"for", "await"}
    /\ idx < Len(query_list)
    /\ idx' = idx + 1
    /\ locals' = [locals EXCEPT !.data_to_log = NewDataToLog]
    /\ calls' = Append(calls, [fn |-> "create", q |-> idx + 1, line |-> 88, result |-> "issued"])
    /\ rq_pc' = "await"
    /\ UNCHANGED <<query_list, output_file, metrics_file, log_file, faults, fanVars>>

\* Lines 66-88: the loop takes the next query, builds data_to_log and the
\* request, and issues the endpoint call it then awaits.
IssueCall ==
    /\ rq_pc = "for"
    /\ idx < Len(query_list)
    /\ idx' = idx + 1
    /\ locals' = [locals EXCEPT !.data_to_log = NewDataToLog]
    /\ calls' = Append(calls, [fn |-> "create", q |-> idx + 1, line |-> 88, result |-> "issued"])
    /\ rq_pc' = "await"
    /\ UNCHANGED <<query_list, output_file, metrics_file, log_file, faults, fanVars>>

\* What the rest of an iteration can do, over the ways the call can end and
\* the ways the file calls can end.
Bodies(q, i, loc) ==
    {[co |-> co, left |-> Body(q, i, loc, co, f)] : co \in CallOutcomes, f \in FaultChoices}

\* Lines 88-135: the awaited call ends and the rest of the iteration runs; an
\* exception the except block raises leaves the runner.
CallCompletes ==
    /\ rq_pc = "await"
    /\ \E b \in Bodies(query_list[idx], idx, locals) :
        LET done == [fn |-> "create_done", q |-> idx, line |-> 88, result |-> b.co.kind,
                     outcome |-> b.co]
        IN  /\ faults + Raised(b.left.calls) <= MaxFaults
            /\ faults' = faults + Raised(b.left.calls)
            /\ calls' = Append(calls, done) \o b.left.calls
            /\ locals' = b.left.locals
            /\ output_file' = OutputAfter(output_file, b.left.calls)
            /\ metrics_file' = MetricsAfter(metrics_file, b.left.calls)
            /\ log_file' = LogAfter(log_file, b.left.calls)
            /\ rq_pc' = IF b.left.ex = "" THEN "for" ELSE "raised"
    /\ UNCHANGED <<query_list, idx, fanVars>>

\* Line 66: the query list is exhausted and the runner returns.
RunnerReturn ==
    /\ rq_pc = "for"
    /\ idx = Len(query_list)
    /\ rq_pc' = "returned"
    /\ UNCHANGED <<query_list, idx, locals, calls, output_file, metrics_file, log_file,
                   faults, fanVars>>

Next ==
    \/ IssueCall
    \/ CallCompletes
    \/ RunnerReturn

Spec == Init /\ [][Next]_vars


\* ------------------------------------------------- main, multi_process
\* The instruction sizes and dataset lengths main can be given.
InstructionSizes == {1, 11}

DatasetLengths == {1, 11}

\* args.target_dir
TargetDir == "results"

\* str(n) of a non-negative int, digit by digit.
RECURSIVE Digits(_)
Digits(n) ==
    LET d == n % 10
        ch == CASE d = 0 -> "0" [] d = 1 -> "1" [] d = 2 -> "2" [] d = 3 -> "3" [] d = 4 -> "4"
                [] d = 5 -> "5" [] d = 6 -> "6" [] d = 7 -> "7" [] d = 8 -> "8" [] d = 9 -> "9"
    IN  IF n < 10 THEN <<ch>> ELSE Append(Digits(n \div 10), ch)

\* A slip: the two numbers joined without the directory name between them.
ModelFilePathRunTogether(target_dir, model, instruction_size, dataset_length) ==
    <<target_dir, "/", HOST_ENV, "/", model, "/">> \o Digits(instruction_size)
        \o Digits(dataset_length) \o <<"_Inferences">>

\* Line 149: the per-run path, as the pieces the f-string joins.
ModelFilePath(target_dir, model, instruction_size, dataset_length) ==
    <<target_dir, "/", HOST_ENV, "/", model, "/">> \o Digits(instruction_size)
        \o <<"_Instructions/">> \o Digits(dataset_length) \o <<"_Inferences">>

\* initialize_files: the output, metrics and log files under the path.
RunFiles(path) == {path \o <<"/", name>> : name \in {"output", "metrics", "log"}}

\* generate_gold_file: the gold file under the path.
GoldFiles(path) == {path \o <<"/", "gold">>}

\* A slip: only one of the two OpenAI models is recognised.
ClientForGpt4Only(m) ==
    IF m \in {MODEL_GPT_4}
    THEN [api_key |-> OPENAI_KEY, base_url |-> DefaultBaseUrl]
    ELSE [api_key |-> ANY_SCALE_API_KEY, base_url |-> ANY_SCALE_BASE_URL]

\* Lines 143-146: the client for a model identifier.
ClientFor(m) ==
    IF m \in {MODEL_GPT_4, MODEL_GPT_3}
    THEN [api_key |-> OPENAI_KEY, base_url |-> DefaultBaseUrl]
    ELSE [api_key |-> ANY_SCALE_API_KEY, base_url |-> ANY_SCALE_BASE_URL]

NoClient == [id |-> 0, api_key |-> "", base_url |-> ""]

Tasks == 1..Len(instruction_size_list)

\* The path task t uses for its current bucket.
PathOf(t) ==
    ModelFilePath(TargetDir, model_name, instruction_size_list[t],
                  dataset_length_list[task[t].bucket])

Event(fn, k, res, cl) == [fn |-> fn, bucket |-> k, result |-> res, client |-> cl]

\* The files `files` written by bucket k of task t.
Writes(files, t, k) == {[file |-> f, task |-> t, bucket |-> k] : f \in files}

\* The runner's variables while the fan-out is looked at.
RunIdle ==
    /\ query_list = <<>>
    /\ rq_pc = "returned"
    /\ idx = 0
    /\ locals = NoLocals
    /\ calls = <<>>
    /\ output_file = <<>>
    /\ metrics_file = <<>>
    /\ log_file = <<>>
    /\ faults = 0

NonEmptyLists(S, n) == UNION {[1..m -> S] : m \in 1..n}

\* The tasks as multi_process_setup starts them.
NewTasks ==
    [t \in 1..Len(instruction_size_list) |->
        [pc |-> "start", bucket |-> 0, client |-> NoClient, made |-> <<>>]]

\* Lines 138-141: one multi_process task, for any model main can resolve.
InitTask ==
    /\ model_name \in Models
    /\ instruction_size_list \in [1..1 -> InstructionSizes]
    /\ dataset_length_list \in NonEmptyLists(DatasetLengths, MaxBuckets)
    /\ task = NewTasks
    /\ written = {}
    /\ RunIdle

\* Lines 178-197 and multi_process_setup: in one iteration of its loop over
\* the models, main has fanned out one multi_process task per instruction
\* size, all with the same datasets_info.
InitFan ==
    /\ model_name = supported_models["cl-70"]
    /\ instruction_size_list \in NonEmptyLists(InstructionSizes, MaxListLen)
    /\ dataset_length_list \in NonEmptyLists(DatasetLengths, MaxBuckets)
    /\ task = NewTasks
    /\ written = {}
    /\ RunIdle

\* Lines 142-146: the task constructs its client.
TaskConstructClient(t) ==
    /\ task[t].pc = "start"
    /\ LET n == Cardinality({k \in 1..Len(task[t].made) : task[t].made[k].fn = "AsyncOpenAI"})
           cl == [id |-> n + 1, api_key |-> ClientFor(model_name).api_key,
                  base_url |-> ClientFor(model_name).base_url]
       IN  task' = [task EXCEPT ![t].pc = "for", ![t].client = cl,
                                ![t].made = Append(@, Event("AsyncOpenAI", 0, "ok", cl))]
    /\ UNCHANGED <<model_name, instruction_size_list, dataset_length_list, written, runVars>>

\* Lines 148-159: the loop takes the next bucket, initialize_files creates its
\* files under the per-run path, and the runner is called with the client.
TaskOpenBucket(t) ==
    /\ task[t].pc = "for"
    /\ task[t].bucket < Len(dataset_length_list)
    /\ LET k == task[t].bucket + 1
           path == ModelFilePath(TargetDir, model_name, instruction_size_list[t],
                                 dataset_length_list[k])
       IN  /\ task' = [task EXCEPT ![t].pc = "run", ![t].bucket = k,
                          ![t].made = @ \o <<Event("initialize_files", k, "ok", task[t].client),
                                             Event("run_queries_on_anyscale", k, "called",
                                                   task[t].client)>>]
           /\ written' = written \cup Writes(RunFiles(path), t, k)
    /\ UNCHANGED <<model_name, instruction_size_list, dataset_length_list, runVars>>

\* A slip: an exception of the runner is swallowed and the bucket goes on.
TaskRunnerEndsSwallowed(t) ==
    /\ task[t].pc = "run"
    /\ \E r \in {"returned", "raised"} :
        task' = [task EXCEPT ![t].pc = "gold",
                    ![t].made = Append(@, Event("run_queries_on_anyscale", task[t].bucket, r,
                                                task[t].client))]
    /\ UNCHANGED <<model_name, instruction_size_list, dataset_length_list, written, runVars>>

\* Line 159: the awaited runner returns, or the exception it raised leaves
\* multi_process.
TaskRunnerEnds(t) ==
    /\ task[t].pc = "run"
    /\ \E r \in {"returned", "raised"} :
        task' = [task EXCEPT ![t].pc = IF r = "returned" THEN "gold" ELSE "failed",
                    ![t].made = Append(@, Event("run_queries_on_anyscale", task[t].bucket, r,
                                                task[t].client))]
    /\ UNCHANGED <<model_name, instruction_size_list, dataset_length_list, written, runVars>>

\* Lines 170-175: the bucket's gold file is generated, or generate_gold_file
\* raises and the exception leaves multi_process.
TaskGenerateGold(t) ==
    /\ task[t].pc = "gold"
    /\ \E r \in {"ok", "raised"} :
        /\ task' = [task EXCEPT ![t].pc = IF r = "ok" THEN "for" ELSE "failed",
                      ![t].made = Append(@, Event("generate_gold_file", task[t].bucket, r,
                                                  task[t].client))]
        /\ written' = IF r = "ok" THEN written \cup Writes(GoldFiles(PathOf(t)), t, task[t].bucket)
                      ELSE written
    /\ UNCHANGED <<model_name, instruction_size_list, dataset_length_list, runVars>>

\* Line 148: datasets_info is exhausted and multi_process returns.
TaskReturn(t) ==
    /\ task[t].pc = "for"
    /\ task[t].bucket = Len(dataset_length_list)
    /\ task' = [task EXCEPT ![t].pc = "done"]
    /\ UNCHANGED <<model_name, instruction_size_list, dataset_length_list, written, runVars>>

NextFan ==
    \/ \E t \in Tasks : TaskConstructClient(t)
    \/ \E t \in Tasks : TaskOpenBucket(t)
    \/ \E t \in Tasks : TaskRunnerEnds(t)
    \/ \E t \in Tasks : TaskGenerateGold(t)
    \/ \E t \in Tasks : TaskReturn(t)

SpecTask == InitTask /\ [][NextFan]_vars

SpecFan == InitFan /\ [][NextFan]_vars


\* ----------------------------------------------------- the runner's claims
N == Len(query_list)

\* The positions of `calls` that hold a call of function fn for query i.
At(fn, i) == {k \in 1..Len(calls) : calls[k].fn = fn /\ calls[k].q = i}

\* The log and write_to_file calls of query i, in order.
FileCallsOf(i) == SelectSeq(calls, LAMBDA c : IsFileCall(c) /\ c.q = i)

\* The awaited call of query i has ended.
Ended(i) == At("create_done", i) # {}

\* How the awaited call of query i ended.
OutcomeOf(i) == calls[CHOOSE k \in At("create_done", i) : TRUE].outcome

\* The iteration of query i has run to its end without an exception leaving it.
Completed(i) == i < idx \/ (i = idx /\ rq_pc \in {"for", "returned"})

\* The call of query i raised, or its response could not be read.
CallFailed(i) == OutcomeOf(i).kind = "raise" \/ OutcomeOf(i).resp.missing # {}

\* The message of the exception a failed call (or a malformed response) raises.
CallFailureMessage(co) ==
    IF co.kind = "raise" THEN "Connection error."
    ELSE IF "content" \in co.resp.missing THEN "list index out of range"
    ELSE IF "completion_tokens" \in co.resp.missing THEN "no attribute completion_tokens"
    ELSE "no attribute prompt_tokens"

\* The call of query i returned a well-formed response in which no SQL is found.
NoSqlFound(i) ==
    /\ OutcomeOf(i).kind = "response"
    /\ OutcomeOf(i).resp.missing = {}
    /\ \/ \A k \in 1..Len(OutcomeOf(i).resp.content) :
            OutcomeOf(i).resp.content[k] \notin {"SELECT", "select", "Select", "Selected", "selected"}
       \/ ~sql_match(OutcomeOf(i).resp.content).found

\* C1: when the runner returns it has made exactly N write_to_file calls, the
\* output file holds N blocks and the metrics file N lines, and line i carries
\* the hardness of query i.
C1_OneRowPerQuery ==
    rq_pc = "returned" =>
        /\ Cardinality({k \in 1..Len(calls) : calls[k].fn = "write_to_file"}) = N
        /\ Len(output_file) = N
        /\ Len(metrics_file) = N
        /\ \A i \in 1..N : metrics_file[i][4] = query_list[i].hardness

\* C2 as stated: no exception ever leaves the runner.
C2_NothingEscapes == rq_pc # "raised"

\* C2 as amended: an exception leaves the runner exactly when a log or
\* write_to_file call of the except block (lines 128, 130) raises; every
\* failure of the try block is followed by the except block's log call; and
\* the runner returns only after the call of every query has ended.
C2_OnlyExceptBlockEscapes ==
    /\ rq_pc = "raised" =>
        /\ calls[Len(calls)].fn \in {"log", "write_to_file"}
        /\ calls[Len(calls)].line \in {128, 130}
        /\ calls[Len(calls)].result # "ok"
        /\ calls[Len(calls)].q = idx
    /\ rq_pc # "raised" =>
        \A k \in 1..Len(calls) :
            (IsFileCall(calls[k]) /\ calls[k].line \in {128, 130}) => calls[k].result = "ok"
    /\ \A k \in 1..Len(calls) :
        \/ /\ calls[k].fn = "create_done"
           /\ CallFailed(calls[k].q)
        \/ /\ IsFileCall(calls[k])
           /\ calls[k].line \in {106, 107, 117, 120}
           /\ calls[k].result # "ok"
        => /\ k < Len(calls)
           /\ calls[k + 1].fn = "log"
           /\ calls[k + 1].line = 128
           /\ calls[k + 1].q = calls[k].q
    /\ rq_pc = "returned" => (idx = N /\ \A i \in 1..N : Ended(i))
    /\ \A i \in 1..idx : i < idx => Ended(i)

\* C2's case: the call of a query raised, and the runner went on and returned.
C2_Witness ==
    /\ rq_pc = "returned"
    /\ N = 2
    /\ OutcomeOf(1).kind = "raise"
    /\ Ended(2)

\* C3: for a query whose call raised or whose response could not be read,
\* every row written is "An error occurred: <message>" plus a blank line with
\* the metrics line 0,0,0,<hardness>, and every log record has severity
\* "error" and is_sql 0.
C3_CallFailureRow ==
    \A i \in 1..idx : (Ended(i) /\ CallFailed(i)) =>
        /\ FileCallsOf(i) # <<>>
        /\ \A k \in 1..Len(calls) : calls[k].q = i =>
            /\ calls[k].fn = "write_to_file" =>
                /\ calls[k].output = <<"An error occurred: ", CallFailureMessage(OutcomeOf(i)), "\n\n">>
                /\ calls[k].metrics = << <<0>>, <<0>>, <<0>>, query_list[i].hardness >>
            /\ calls[k].fn = "log" =>
                /\ calls[k].data.severity = "error"
                /\ calls[k].data.is_sql = 0
                /\ calls[k].msg = CallFailureMessage(OutcomeOf(i))
        /\ Completed(i) =>
            /\ Len(FileCallsOf(i)) = 2
            /\ FileCallsOf(i)[1].fn = "log"
            /\ FileCallsOf(i)[2].fn = "write_to_file"

\* C3's case: a response whose prompt_tokens could not be read, after its
\* completion_tokens were, got its row.
C3_Witness ==
    \E i \in 1..idx :
        /\ Completed(i)
        /\ OutcomeOf(i).resp = RespNoPromptTokens
        /\ locals.llm_response_tokens = 3
        /\ Len(metrics_file) >= i

C5_OneLogRecordPerQuery ==
    \A i \in 1..idx : Completed(i) =>
        /\ Cardinality({k \in At("log", i) : calls[k].result = "ok"}) = 1
        /\ \A k \in At("log", i), w \in At("write_to_file", i) : k < w

\* C6: the calls are issued one per query, in the order of the queries, each
\* after the previous query's call has ended and its log record and rows are
\* written, and at most one call is in flight.
C6_SequentialSingleShot ==
    LET issued == {k \in 1..Len(calls) : calls[k].fn = "create"}
        ended == {k \in 1..Len(calls) : calls[k].fn = "create_done"}
    IN  /\ \A i \in 1..N : Cardinality(At("create", i)) <= 1
        /\ \A k \in issued :
            /\ calls[k].q = Cardinality({j \in issued : j <= k})
            /\ calls[k].q > 1 =>
                /\ \E j \in At("create_done", calls[k].q - 1) : j < k
                /\ \E j \in At("log", calls[k].q - 1) : j < k /\ calls[j].result = "ok"
                /\ \E j \in At("write_to_file", calls[k].q - 1) : j < k /\ calls[j].result = "ok"
        /\ Cardinality(issued) - Cardinality(ended) = IF rq_pc = "await" THEN 1 ELSE 0

\* C6's case: the first query's call raised and the second query's call is in
\* flight.
C6_Witness ==
    /\ rq_pc = "await"
    /\ idx = 2
    /\ OutcomeOf(1).kind = "raise"

\* C10: a log record of severity "warn" or "error" has is_sql 0, and a query
\* with an is_sql 1 log record has, once its iteration is over, the SQL of its
\* own response as its row and the measured time in its metrics line.
C10_IsSqlAgreesWithRow ==
    /\ \A k \in 1..Len(log_file) :
        log_file[k].severity \in {"warn", "error"} => log_file[k].is_sql = 0
    /\ \A i \in 1..idx :
        (Completed(i) /\ \E k \in At("log", i) : calls[k].result = "ok" /\ calls[k].data.is_sql = 1)
        => \A w \in At("write_to_file", i) :
            /\ calls[w].output = Append(sql_match(OutcomeOf(i).resp.content).sql, "\n\n")
            /\ calls[w].metrics[1] = FormatTimedelta(OutcomeOf(i).elapsed)


\* ---------------------------------------------------- the fan-out's claims
\* The calls task t has made for its buckets, in order.
BucketCalls(t) == SelectSeq(task[t].made, LAMBDA e : e.fn # "AsyncOpenAI")

\* C7: each task handles its buckets in the order given, each as
\* initialize_files, the runner, generate_gold_file; the next bucket starts
\* only after the gold file of the previous one is generated, and nothing
\* follows a call that raised.
C7_BucketsInOrder ==
    \A t \in Tasks :
        LET ev == BucketCalls(t)
        IN  \A p \in 1..Len(ev) :
            /\ ev[p].bucket \in 1..Len(dataset_length_list)
            /\ (ev[p].fn = "initialize_files" /\ p = 1) => ev[p].bucket = 1
            /\ (ev[p].fn = "initialize_files" /\ p > 1) =>
                /\ ev[p - 1].fn = "generate_gold_file"
                /\ ev[p - 1].result = "ok"
                /\ ev[p].bucket = ev[p - 1].bucket + 1
            /\ (ev[p].fn = "run_queries_on_anyscale" /\ ev[p].result = "called") =>
                /\ p > 1
                /\ ev[p - 1].fn = "initialize_files"
                /\ ev[p - 1].bucket = ev[p].bucket
            /\ (ev[p].fn = "run_queries_on_anyscale" /\ ev[p].result # "called") =>
                /\ p > 1
                /\ ev[p - 1].fn = "run_queries_on_anyscale"
                /\ ev[p - 1].result = "called"
                /\ ev[p - 1].bucket = ev[p].bucket
            /\ ev[p].fn = "generate_gold_file" =>
                /\ p > 1
                /\ ev[p - 1].fn = "run_queries_on_anyscale"
                /\ ev[p - 1].result = "returned"
                /\ ev[p - 1].bucket = ev[p].bucket
            /\ ev[p].result = "raised" => (p = Len(ev) /\ task[t].pc = "failed")
            /\ (p = 1) => ev[p].fn = "initialize_files"

\* C7's case: a task has generated the gold file of its second bucket while
\* another task has failed in its first.
C7_Witness ==
    \E t, u \in Tasks :
        /\ task[t].pc = "done"
        /\ task[t].bucket = 2
        /\ task[u].pc = "failed"
        /\ task[u].bucket = 1

\* C8: a task constructs exactly one client, before its first bucket, and
\* hands that client to every runner call; the client has the OpenAI key and
\* no base URL exactly for gpt-4-turbo-preview and gpt-3.5-turbo-16k, and the
\* Anyscale key and base URL for every other model.
C8_OneClientPerCombination ==
    \A t \in Tasks :
        LET made == task[t].made
            built == {k \in 1..Len(made) : made[k].fn = "AsyncOpenAI"}
        IN  /\ Cardinality(built) = IF task[t].pc = "start" THEN 0 ELSE 1
            /\ task[t].pc # "start" =>
                /\ built = {1}
                /\ task[t].client = made[1].client
                /\ task[t].client.id = 1
                /\ IF model_name \in {"gpt-4-turbo-preview", "gpt-3.5-turbo-16k"}
                   THEN /\ task[t].client.api_key = "OPENAI_KEY"
                        /\ task[t].client.base_url = "default"
                   ELSE /\ task[t].client.api_key = "ANY_SCALE_API_KEY"
                        /\ task[t].client.base_url = "https://api.endpoints.anyscale.com/v1"
            /\ \A k \in 1..Len(made) :
                made[k].fn = "run_queries_on_anyscale" => made[k].client = made[1].client

\* C8's case: a gpt-3.5 task has called the runner for its second bucket.
C8_Witness ==
    /\ model_name = "gpt-3.5-turbo-16k"
    /\ \E t \in Tasks : task[t].pc = "run" /\ task[t].bucket = 2

\* C9 as stated: no file is written by two different (task, bucket) pairs.
C9_DisjointFiles ==
    \A w1, w2 \in written :
        w1.file = w2.file => (w1.task = w2.task /\ w1.bucket = w2.bucket)

\* C9 as amended: two (task, bucket) pairs write a common file only when
\* their instruction sizes are equal and their dataset lengths are equal, and
\* then they write the same files.
C9_SharedOnlyOnEqualParameters ==
    \A w1, w2 \in written :
        w1.file = w2.file =>
            /\ instruction_size_list[w1.task] = instruction_size_list[w2.task]
            /\ dataset_length_list[w1.bucket] = dataset_length_list[w2.bucket]

\* C9's case: two tasks of sizes 1 and 11 have both written the gold files of
\* buckets of lengths 11 and 1.
C9_Witness ==
    \E w1, w2 \in written :
        /\ w1.task # w2.task
        /\ instruction_size_list[w1.task] = 1
        /\ dataset_length_list[w1.bucket] = 11
        /\ instruction_size_list[w2.task] = 11
        /\ dataset_length_list[w2.bucket] = 1
        /\ w1.file # w2.file
        /\ task[w1.task].pc = "done"
        /\ task[w2.task].pc = "done"

====
